---- MODULE Spec2Model ----
(***************************************************************************)
(* Model of the VM provisioning transaction of azure-infra-core:           *)
(* create_vm and rollback_resources of src/src/virtual_environment.py,     *)
(* run against a cloud provider whose calls may each succeed or fail.      *)
(***************************************************************************)
EXTENDS Integers, Sequences, FiniteSets, TLC

VARIABLES
    cfg,                \* the configuration passed to create_vm
    pc,                 \* position of the control flow in create_vm / rollback_resources
    k,                  \* index of the creation block being executed (1..6)
    public_ip,          \* the local variable public_ip (rebound at line 90)
    created_resources,  \* the list created_resources
    e,                  \* the exception caught at line 163
    rollback_arg,       \* the list rollback_resources was invoked with
    it,                 \* position of the for loop of line 180 in reversed(created_resources)
    inflight,           \* provider calls issued and not yet returned
    issued,             \* every provider call issued so far, in order
    results,            \* the result of every provider call that returned, in order
    exists,             \* resources existing at the provider
    stdout,             \* lines printed
    raised,             \* the exception that left create_vm, NoError if none
    rollback_ret,       \* what rollback_resources returned to create_vm
    ret,                \* what create_vm returned to its caller
    main_calls          \* the functions interactive_creation has called

vars == <<cfg, pc, k, public_ip, created_resources, e, rollback_arg, it,
          inflight, issued, results, exists, stdout, raised, rollback_ret,
          ret, main_calls>>

----------------------------------------------------------------------------
(* Values *)

\* a str value
Str(s) == [type |-> "str", kind |-> "-", name |-> s]

\* the SDK model object a create call returns for the resource of that name
Obj(kind, s) == [type |-> "obj", kind |-> kind, name |-> s]

\* Python's None, as a value
PyNone == [type |-> "none", kind |-> "-", name |-> "-"]

\* no value: the function has not returned
NoValue == [type |-> "-", kind |-> "-", name |-> "-"]

Missing == "<missing>"

\* Python's None, as a function result
None == [returned |-> TRUE, present |-> FALSE, entries |-> <<>>]

\* the function has not returned
NotReturned == [returned |-> FALSE, present |-> FALSE, entries |-> <<>>]

NoError == [op |-> "none", kind |-> "-"]
Ok == [op |-> "ok", kind |-> "-"]

\* the error a provider call of that operation on that kind fails with
Err(op, kind) == [op |-> op, kind |-> kind]

\* the fields create_vm reads from cfg, in the order it reads them
CfgFields == <<"subscription_id", "rg_name", "rg_location", "vm_name", "vm_size",
               "admin_username", "ssh_public_key_path", "virtual_network",
               "sub_network", "network_security_grp", "public_ip",
               "network_interface">>

FieldSet == {CfgFields[j] : j \in 1..Len(CfgFields)}

FullCfg == [f \in FieldSet |-> f]

\* the configurations create_vm is started with: complete, or one field missing
CfgSet == {FullCfg} \cup {[FullCfg EXCEPT ![f] = Missing] : f \in FieldSet}

\* fields read with a default, so that no field is ever found missing
FirstMissing_lenient(c) == 0

\* the first field, in reading order, that the configuration lacks (0 if none)
FirstMissing(c) ==
    LET idx == {j \in 1..Len(CfgFields) : c[CfgFields[j]] = Missing}
    IN IF idx = {} THEN 0 ELSE CHOOSE j \in idx : \A j2 \in idx : j <= j2

----------------------------------------------------------------------------
(* The creation blocks of create_vm, in program order *)

\* the blocks with the NSG created before the Subnet
StepKind_swapped == <<"vnet", "nsg", "subnet", "public_ip", "nic", "vm">>

StepKind == <<"vnet", "subnet", "nsg", "public_ip", "nic", "vm">>

NumSteps == Len(StepKind)

\* the name argument of the create call of block j
StepName(j) ==
    CASE StepKind[j] = "vnet"      -> Str(cfg["virtual_network"])
      [] StepKind[j] = "subnet"    -> Str(cfg["sub_network"])
      [] StepKind[j] = "nsg"       -> Str(cfg["network_security_grp"])
      [] StepKind[j] = "public_ip" -> public_ip
      [] StepKind[j] = "nic"       -> Str(cfg["network_interface"])
      [] StepKind[j] = "vm"        -> Str(cfg["vm_name"])

\* the name recorded in created_resources by block j
AppendedName(j) ==
    CASE StepKind[j] = "vnet"      -> Str(cfg["virtual_network"])
      [] StepKind[j] = "subnet"    -> Str(cfg["sub_network"])
      [] StepKind[j] = "nsg"       -> Str(cfg["network_security_grp"])
      [] StepKind[j] = "public_ip" -> Obj("public_ip", public_ip.name)
      [] StepKind[j] = "nic"       -> Str(cfg["network_interface"])
      [] StepKind[j] = "vm"        -> Str(cfg["vm_name"])

\* the parent resource of the resource created by block j ("-" if none)
StepParent(j) == IF StepKind[j] = "subnet" THEN cfg["virtual_network"] ELSE "-"

\* where control goes after block j has appended its entry
AfterCreate(j) ==
    CASE StepKind[j] = "nic" -> "ssh"
      [] StepKind[j] = "vm"  -> "success"
      [] OTHER               -> "create"

\* a provider call
Call(op, kind, rg, name, parent) ==
    [op |-> op, kind |-> kind, rg |-> rg, name |-> name, parent |-> parent]

\* a resource at the provider
Resource(kind, rg, name, parent) ==
    [kind |-> kind, rg |-> rg, name |-> name, parent |-> parent]

\* a printed line
Line(text, arg) == [line |-> text, arg |-> arg]

\* the line printed when block j starts
StepLine(j) == Line("Creating", StepKind[j])

----------------------------------------------------------------------------
(* The provider *)

\* the resources a successful delete call removes: the named resource, and
\* with a virtual network the subnets it contains
Removed(c) ==
    LET hit == {r \in exists : /\ r.kind = c.kind
                               /\ r.rg = c.rg
                               /\ Str(r.name) = c.name}
    IN hit \cup {r \in exists : /\ r.kind = "subnet"
                                /\ c.kind = "vnet"
                                /\ r.rg = c.rg
                                /\ \E h \in hit : h.name = r.parent}

----------------------------------------------------------------------------
(* rollback_resources helpers *)

\* the list in creation order
Reversed_forward(s) == s

RECURSIVE Reversed(_)
\* reversed(created_resources)
Reversed(s) == IF s = <<>> THEN <<>> ELSE Append(Reversed(Tail(s)), Head(s))

\* the branch of the if chain that issues no delete call
Skipped(rtype) == rtype = "subnet"

\* an if chain whose last branch deletes the resource group
DeleteTarget_group(rtype) ==
    CASE rtype = "vm"        -> "vm"
      [] rtype = "nic"       -> "nic"
      [] rtype = "public_ip" -> "public_ip"
      [] rtype = "nsg"       -> "nsg"
      [] rtype = "vnet"      -> "resource_group"

\* the kind whose begin_delete the if chain calls for an entry
DeleteTarget(rtype) ==
    CASE rtype = "vm"        -> "vm"
      [] rtype = "nic"       -> "nic"
      [] rtype = "public_ip" -> "public_ip"
      [] rtype = "nsg"       -> "nsg"
      [] rtype = "vnet"      -> "vnet"

\* the entry the for loop of rollback_resources is at
Entry == Reversed(rollback_arg)[it]

\* the one call in flight
TheCall == CHOOSE c \in inflight : TRUE

----------------------------------------------------------------------------
(* interactive_creation of src/main.py *)

\* the answers to the service prompt; an empty answer counts as "1"
Choices == {"1", "2", "3", "4"}

\* the function the branch taken for answer a calls
MenuCall(a) ==
    CASE a = "1" -> "create_resource_group"
      [] a = "2" -> "delete_resource_group"
      [] a = "3" -> "delete_resource_group"
      [] OTHER   -> "none"

\* the status line the branch taken for answer a prints first
MenuLine(a) ==
    CASE a = "1" -> "Creating resource group"
      [] a = "2" -> "Deleting resource group"
      [] a = "3" -> "Deleting resource group"
      [] OTHER   -> "none"

\* the provider after the function fn has run on the resource group rg
AfterGroupCall(fn, rg) ==
    CASE fn = "create_resource_group" ->
             exists \cup {Resource("resource_group", "-", rg, "-")}
      [] fn = "delete_resource_group" ->
             {r \in exists : ~(r.kind = "resource_group" /\ r.name = rg) /\ r.rg # rg}
      [] OTHER -> exists

----------------------------------------------------------------------------
Init ==
    /\ cfg \in CfgSet
    /\ pc \in {"menu", "cfg"}
    /\ k = 1
    /\ public_ip = Str("-")
    /\ created_resources = <<>>
    /\ e = NoError
    /\ rollback_arg = <<>>
    /\ it = 0
    /\ inflight = {}
    /\ issued = <<>>
    /\ results = <<>>
    /\ exists \in {{}, {Resource("resource_group", "-", FullCfg["rg_name"], "-")}}
    /\ stdout = <<>>
    /\ raised = NoError
    /\ rollback_ret = NotReturned
    /\ ret = NoValue
    /\ main_calls = <<>>

\* main.py lines 106-158: the service menu and the branch of the answer
interactive_creation ==
    /\ pc = "menu"
    /\ \E a \in Choices :
          /\ main_calls' = IF MenuCall(a) = "none" THEN main_calls
                            ELSE Append(main_calls, [choice |-> a, fn |-> MenuCall(a),
                                                     rg |-> cfg["rg_name"]])
          /\ stdout' = IF MenuCall(a) = "none" THEN stdout
                        ELSE stdout \o <<Line(MenuLine(a), cfg["rg_name"]),
                                          Line("operation completed", a)>>
          /\ exists' = AfterGroupCall(MenuCall(a), cfg["rg_name"])
    /\ pc' = "main_done"
    /\ UNCHANGED <<cfg, k, public_ip, created_resources, e, rollback_arg, it,
                   inflight, issued, results, raised, rollback_ret, ret>>

\* lines 23-36: every field is present
ReadConfigOk ==
    /\ pc = "cfg"
    /\ FirstMissing(cfg) = 0
    /\ public_ip' = Str(cfg["public_ip"])
    /\ stdout' = Append(stdout, Line("Starting VM creation", cfg["vm_name"]))
    /\ pc' = "cred"
    /\ UNCHANGED <<cfg, k, created_resources, e, rollback_arg, it, inflight,
                   issued, results, exists, raised, rollback_ret,
                   ret, main_calls>>

\* lines 23-34: a subscript raises KeyError, outside the try
ReadConfigFail ==
    /\ pc = "cfg"
    /\ FirstMissing(cfg) # 0
    /\ raised' = Err("KeyError", CfgFields[FirstMissing(cfg)])
    /\ pc' = "raised"
    /\ UNCHANGED <<cfg, k, public_ip, created_resources, e, rollback_arg, it,
                   inflight, issued, results, exists, stdout, rollback_ret,
                   ret, main_calls>>

\* lines 38-41: the credential and the three clients are constructed
CredentialOk ==
    /\ pc = "cred"
    /\ pc' = "rg"
    /\ UNCHANGED <<cfg, k, public_ip, created_resources, e, rollback_arg, it,
                   inflight, issued, results, exists, stdout, raised, rollback_ret,
                   ret, main_calls>>

\* lines 38-41: a constructor raises, outside the try
CredentialFail ==
    /\ pc = "cred"
    /\ raised' = Err("credential", "-")
    /\ pc' = "raised"
    /\ UNCHANGED <<cfg, k, public_ip, created_resources, e, rollback_arg, it,
                   inflight, issued, results, exists, stdout, rollback_ret,
                   ret, main_calls>>

\* lines 47-49: the resource group create_or_update call is made
IssueEnsure ==
    /\ pc = "rg"
    /\ inflight = {}
    /\ LET c == Call("create", "resource_group", "-", Str(cfg["rg_name"]), "-")
       IN /\ inflight' = {c}
          /\ issued' = Append(issued, c)
    /\ stdout' = Append(stdout, Line("Ensuring resource group", cfg["rg_name"]))
    /\ pc' = "rg_wait"
    /\ UNCHANGED <<cfg, k, public_ip, created_resources, e, rollback_arg, it,
                   results, exists, raised, rollback_ret,
                   ret, main_calls>>

\* line 48 returns
EnsureOk ==
    /\ pc = "rg_wait"
    /\ inflight # {}
    /\ exists' = exists \cup {Resource("resource_group", "-", TheCall.name.name, "-")}
    /\ results' = Append(results, Ok)
    /\ inflight' = {}
    /\ pc' = "create"
    /\ UNCHANGED <<cfg, k, public_ip, created_resources, e, rollback_arg, it,
                   issued, stdout, raised, rollback_ret,
                   ret, main_calls>>

\* a failed ensure call that is ignored: the creation blocks run
EnsureFail_ignored ==
    /\ pc = "rg_wait"
    /\ inflight # {}
    /\ results' = Append(results, Err("create", "resource_group"))
    /\ inflight' = {}
    /\ pc' = "create"
    /\ UNCHANGED <<cfg, k, public_ip, created_resources, e, rollback_arg, it,
                   issued, exists, stdout, raised, rollback_ret,
                   ret, main_calls>>

\* line 48 raises (an authentication failure shows here first)
EnsureFail ==
    /\ pc = "rg_wait"
    /\ inflight # {}
    /\ results' = Append(results, Err("create", "resource_group"))
    /\ e' = Err("create", "resource_group")
    /\ inflight' = {}
    /\ pc' = "except"
    /\ UNCHANGED <<cfg, k, public_ip, created_resources, rollback_arg, it,
                   issued, exists, stdout, raised, rollback_ret,
                   ret, main_calls>>

\* lines 52-53, 63-64, 71-72, 89-90, 97-98, 154-157: begin_create_or_update
IssueCreate ==
    /\ pc = "create"
    /\ k <= NumSteps
    /\ inflight = {}
    /\ LET c == Call("create", StepKind[k], cfg["rg_name"], StepName(k), StepParent(k))
       IN /\ inflight' = {c}
          /\ issued' = Append(issued, c)
    /\ stdout' = Append(stdout, StepLine(k))
    /\ pc' = "create_wait"
    /\ UNCHANGED <<cfg, k, public_ip, created_resources, e, rollback_arg, it,
                   results, exists, raised, rollback_ret,
                   ret, main_calls>>

\* lines 59-60, 67-68, 85-86, 93-94, 111-112, 158-159: result() returns and the
\* entry is appended
CreateOk ==
    /\ pc = "create_wait"
    /\ inflight # {}
    /\ exists' = exists \cup
           {Resource(TheCall.kind, TheCall.rg, TheCall.name.name, TheCall.parent)}
    /\ results' = Append(results, Ok)
    /\ inflight' = {}
    /\ public_ip' = IF StepKind[k] = "public_ip"
                     THEN Obj("public_ip", public_ip.name) ELSE public_ip
    /\ created_resources' = Append(created_resources, <<StepKind[k], AppendedName(k)>>)
    /\ k' = k + 1
    /\ pc' = AfterCreate(k)
    /\ UNCHANGED <<cfg, e, rollback_arg, it, issued, stdout, raised, rollback_ret,
                   ret, main_calls>>

\* a failed create that is swallowed: the next block runs
CreateFail_continues ==
    /\ pc = "create_wait"
    /\ inflight # {}
    /\ results' = Append(results, Err("create", StepKind[k]))
    /\ inflight' = {}
    /\ k' = k + 1
    /\ pc' = AfterCreate(k)
    /\ UNCHANGED <<cfg, public_ip, created_resources, e, rollback_arg, it,
                   issued, exists, stdout, raised, rollback_ret,
                   ret, main_calls>>

\* a failed create whose entry is appended all the same
CreateFail_appends ==
    /\ pc = "create_wait"
    /\ inflight # {}
    /\ results' = Append(results, Err("create", StepKind[k]))
    /\ e' = Err("create", StepKind[k])
    /\ inflight' = {}
    /\ created_resources' = Append(created_resources, <<StepKind[k], StepName(k)>>)
    /\ pc' = "except"
    /\ UNCHANGED <<cfg, k, public_ip, rollback_arg, it,
                   issued, exists, stdout, raised, rollback_ret,
                   ret, main_calls>>

\* result() raises: control leaves the try for line 163
CreateFail ==
    /\ pc = "create_wait"
    /\ inflight # {}
    /\ results' = Append(results, Err("create", StepKind[k]))
    /\ e' = Err("create", StepKind[k])
    /\ inflight' = {}
    /\ pc' = "except"
    /\ UNCHANGED <<cfg, k, public_ip, created_resources, rollback_arg, it,
                   issued, exists, stdout, raised, rollback_ret,
                   ret, main_calls>>

\* lines 115-117: the key file is read
ReadKeyOk ==
    /\ pc = "ssh"
    /\ stdout' = Append(stdout, Line("Defining VM configuration", "-"))
    /\ pc' = "create"
    /\ UNCHANGED <<cfg, k, public_ip, created_resources, e, rollback_arg, it,
                   inflight, issued, results, exists, raised, rollback_ret,
                   ret, main_calls>>

\* line 116 raises
ReadKeyFail ==
    /\ pc = "ssh"
    /\ stdout' = Append(stdout, Line("Defining VM configuration", "-"))
    /\ e' = Err("open", "ssh_public_key_path")
    /\ pc' = "except"
    /\ UNCHANGED <<cfg, k, public_ip, created_resources, rollback_arg, it,
                   inflight, issued, results, exists, raised, rollback_ret,
                   ret, main_calls>>

\* a return that runs the rollback first, as a finally clause would
Success_finally ==
    /\ pc = "success"
    /\ stdout' = Append(stdout, Line("created successfully", cfg["vm_name"]))
    /\ rollback_arg' = created_resources
    /\ it' = 1
    /\ pc' = "rollback"
    /\ UNCHANGED <<cfg, k, public_ip, created_resources, e, inflight, issued,
                   results, exists, raised, rollback_ret, ret, main_calls>>

\* line 161: the try block ends and create_vm falls off its end, returning None
Success ==
    /\ pc = "success"
    /\ stdout' = Append(stdout, Line("created successfully", cfg["vm_name"]))
    /\ ret' = PyNone
    /\ pc' = "returned"
    /\ UNCHANGED <<cfg, k, public_ip, created_resources, e, rollback_arg, it,
                   inflight, issued, results, exists, raised, rollback_ret,
                   main_calls>>

\* lines 163-168: the handler calls rollback_resources
ExceptHandler ==
    /\ pc = "except"
    /\ stdout' = stdout \o <<Line("Error during VM creation", e.kind),
                              Line("Rolling back created resources", "-")>>
    /\ rollback_arg' = created_resources
    /\ it' = 1
    /\ pc' = "rollback"
    /\ UNCHANGED <<cfg, k, public_ip, created_resources, e, inflight, issued,
                   results, exists, raised, rollback_ret,
                   ret, main_calls>>

\* the subnet entry gets a delete call of its own
RollbackSkip_deletes ==
    /\ pc = "rollback"
    /\ it <= Len(rollback_arg)
    /\ Skipped(Entry[1])
    /\ inflight = {}
    /\ stdout' = Append(stdout, Line("Deleting", Entry[1]))
    /\ LET c == Call("delete", Entry[1], cfg["rg_name"], Entry[2], "-")
       IN /\ inflight' = {c}
          /\ issued' = Append(issued, c)
    /\ pc' = "delete_wait"
    /\ UNCHANGED <<cfg, k, public_ip, created_resources, e, rollback_arg, it,
                   results, exists, raised, rollback_ret,
                   ret, main_calls>>

\* lines 180-182, 191-193: the subnet entry is passed over
RollbackSkip ==
    /\ pc = "rollback"
    /\ it <= Len(rollback_arg)
    /\ Skipped(Entry[1])
    /\ stdout' = Append(stdout, Line("Deleting", Entry[1]))
    /\ it' = it + 1
    /\ UNCHANGED <<cfg, pc, k, public_ip, created_resources, e, rollback_arg,
                   inflight, issued, results, exists, raised, rollback_ret,
                   ret, main_calls>>

\* a begin_delete whose result is not waited for: the loop goes on at once
IssueDelete_nowait ==
    /\ pc = "rollback"
    /\ it <= Len(rollback_arg)
    /\ ~Skipped(Entry[1])
    /\ stdout' = Append(stdout, Line("Deleting", Entry[1]))
    /\ LET c == Call("delete", DeleteTarget(Entry[1]), cfg["rg_name"], Entry[2], "-")
       IN /\ inflight' = inflight \cup {c}
          /\ issued' = Append(issued, c)
    /\ it' = it + 1
    /\ UNCHANGED <<cfg, pc, k, public_ip, created_resources, e, rollback_arg,
                   results, exists, raised, rollback_ret, ret, main_calls>>

\* lines 180-195: begin_delete for the entry
IssueDelete ==
    /\ pc = "rollback"
    /\ it <= Len(rollback_arg)
    /\ ~Skipped(Entry[1])
    /\ inflight = {}
    /\ stdout' = Append(stdout, Line("Deleting", Entry[1]))
    /\ LET c == Call("delete", DeleteTarget(Entry[1]), cfg["rg_name"], Entry[2], "-")
       IN /\ inflight' = {c}
          /\ issued' = Append(issued, c)
    /\ pc' = "delete_wait"
    /\ UNCHANGED <<cfg, k, public_ip, created_resources, e, rollback_arg, it,
                   results, exists, raised, rollback_ret,
                   ret, main_calls>>

\* result() of the delete returns
DeleteOk ==
    /\ pc = "delete_wait"
    /\ inflight # {}
    /\ exists' = exists \ Removed(TheCall)
    /\ results' = Append(results, Ok)
    /\ inflight' = {}
    /\ it' = it + 1
    /\ pc' = "rollback"
    /\ UNCHANGED <<cfg, k, public_ip, created_resources, e, rollback_arg,
                   issued, stdout, raised, rollback_ret,
                   ret, main_calls>>

\* a failed delete that is tried once more before the loop goes on
DeleteFail_retry ==
    /\ pc = "delete_wait"
    /\ inflight # {}
    /\ results' = Append(results, Err("delete", TheCall.kind))
    /\ inflight' = {}
    /\ stdout' = Append(stdout, Line("Failed to delete", Entry[1]))
    /\ it' = IF \E j \in 1..Len(results) : results[j] = Err("delete", TheCall.kind)
             THEN it + 1 ELSE it
    /\ pc' = "rollback"
    /\ UNCHANGED <<cfg, k, public_ip, created_resources, e, rollback_arg,
                   issued, exists, raised, rollback_ret, ret, main_calls>>

\* a failed delete that prints nothing
DeleteFail_silent ==
    /\ pc = "delete_wait"
    /\ inflight # {}
    /\ results' = Append(results, Err("delete", TheCall.kind))
    /\ inflight' = {}
    /\ it' = it + 1
    /\ pc' = "rollback"
    /\ UNCHANGED <<cfg, k, public_ip, created_resources, e, rollback_arg,
                   issued, exists, stdout, raised, rollback_ret,
                   ret, main_calls>>

\* a failed delete that ends the loop
DeleteFail_aborts ==
    /\ pc = "delete_wait"
    /\ inflight # {}
    /\ results' = Append(results, Err("delete", TheCall.kind))
    /\ inflight' = {}
    /\ stdout' = Append(stdout, Line("Failed to delete", Entry[1]))
    /\ it' = Len(rollback_arg) + 1
    /\ pc' = "rollback"
    /\ UNCHANGED <<cfg, k, public_ip, created_resources, e, rollback_arg,
                   issued, exists, raised, rollback_ret,
                   ret, main_calls>>

\* a failed delete whose exception becomes the one create_vm holds
DeleteFail_replaces ==
    /\ pc = "delete_wait"
    /\ inflight # {}
    /\ results' = Append(results, Err("delete", TheCall.kind))
    /\ inflight' = {}
    /\ stdout' = Append(stdout, Line("Failed to delete", Entry[1]))
    /\ e' = Err("delete", TheCall.kind)
    /\ it' = it + 1
    /\ pc' = "rollback"
    /\ UNCHANGED <<cfg, k, public_ip, created_resources, rollback_arg,
                   issued, exists, raised, rollback_ret,
                   ret, main_calls>>

\* lines 196-197: the delete raises, the failure is printed, the loop goes on
DeleteFail ==
    /\ pc = "delete_wait"
    /\ inflight # {}
    /\ results' = Append(results, Err("delete", TheCall.kind))
    /\ inflight' = {}
    /\ stdout' = Append(stdout, Line("Failed to delete", Entry[1]))
    /\ it' = it + 1
    /\ pc' = "rollback"
    /\ UNCHANGED <<cfg, k, public_ip, created_resources, e, rollback_arg,
                   issued, exists, raised, rollback_ret,
                   ret, main_calls>>

\* line 198: the loop is over, rollback_resources returns None
RollbackComplete ==
    /\ pc = "rollback"
    /\ it > Len(rollback_arg)
    /\ stdout' = Append(stdout, Line("Rollback complete", "-"))
    /\ rollback_ret' = None
    /\ pc' = "reraise"
    /\ UNCHANGED <<cfg, k, public_ip, created_resources, e, rollback_arg, it,
                   inflight, issued, results, exists, raised,
                   ret, main_calls>>

\* line 170: the caught exception is raised again
Reraise ==
    /\ pc = "reraise"
    /\ raised' = e
    /\ pc' = "raised"
    /\ UNCHANGED <<cfg, k, public_ip, created_resources, e, rollback_arg, it,
                   inflight, issued, results, exists, stdout, rollback_ret,
                   ret, main_calls>>

Next ==
    \/ interactive_creation
    \/ ReadConfigOk
    \/ ReadConfigFail
    \/ CredentialOk
    \/ CredentialFail
    \/ IssueEnsure
    \/ EnsureOk
    \/ EnsureFail
    \/ IssueCreate
    \/ CreateOk
    \/ CreateFail
    \/ ReadKeyOk
    \/ ReadKeyFail
    \/ Success
    \/ ExceptHandler
    \/ RollbackSkip
    \/ IssueDelete
    \/ DeleteOk
    \/ DeleteFail
    \/ RollbackComplete
    \/ Reraise

Spec == Init /\ [][Next]_vars

\* every call returns and the interpreter keeps running: no step that can be
\* taken is put off for ever
FairSpec == Spec /\ WF_vars(Next)

----------------------------------------------------------------------------
(* Vocabulary of the properties *)

\* the dependency order of the six resource kinds
Order == <<"vnet", "subnet", "nsg", "public_ip", "nic", "vm">>

\* the kinds that receive a delete call, in dependency order
Deletable == <<"vnet", "nsg", "public_ip", "nic", "vm">>

IsStepCreate(c) == c.op = "create" /\ c.kind # "resource_group"
IsDelete(c) == c.op = "delete"

\* positions in the call history
Returned == 1..Len(results)
CreateCalls == {j \in 1..Len(issued) : IsStepCreate(issued[j])}
DeleteCalls == {j \in 1..Len(issued) : IsDelete(issued[j])}
FailedCreates == {j \in CreateCalls \cap Returned : results[j] # Ok}
FailedDeletes == {j \in DeleteCalls \cap Returned : results[j] # Ok}
OkDeletes == {j \in DeleteCalls \cap Returned : results[j] = Ok}

\* the kinds of the delete calls issued so far, in order
DeleteKinds ==
    LET d == SelectSeq(issued, IsDelete) IN [j \in 1..Len(d) |-> d[j].kind]

\* the kinds of the create calls of the six blocks issued so far, in order
CreateKinds ==
    LET c == SelectSeq(issued, IsStepCreate) IN [j \in 1..Len(c) |-> c[j].kind]

\* the kinds of the entries of a committed sequence
KindsOf(s) == [j \in 1..Len(s) |-> s[j][1]]

IsPrefix(s, t) == Len(s) <= Len(t) /\ \A j \in 1..Len(s) : s[j] = t[j]

\* the dependency position of a kind
Pos(kind) == CHOOSE j \in 1..Len(Order) : Order[j] = kind

\* the create call of step n has failed
StepFailed(n) == \E j \in FailedCreates : issued[j].kind = Order[n]

\* rollback_resources has been invoked
RollbackInvoked == pc \in {"rollback", "delete_wait", "reraise", "raised"} /\ it > 0

\* rollback_resources has returned
RollbackOver == pc \in {"reraise", "raised"} /\ it > 0

\* the delete calls due after a failure of step n: steps n-1 down to 1, Subnet left out
DueDeletes(n) ==
    LET m == IF n <= 2 THEN n - 1 ELSE n - 2
    IN [j \in 1..m |-> Deletable[m - j + 1]]

\* C1: if the create call of step n fails, rollback_resources is invoked with
\* exactly the n-1 steps committed so far and its delete calls follow the
\* reverse commit order n-1, ..., 1 with the Subnet entry left out; a failure
\* of step 4 yields exactly the deletes NSG, VNet.
C1_ReverseOrderRollback ==
    \A n \in 1..Len(Order) :
        StepFailed(n) =>
            /\ pc \in {"except", "rollback", "delete_wait", "reraise", "raised"}
            /\ RollbackInvoked =>
                   /\ KindsOf(rollback_arg) = SubSeq(Order, 1, n - 1)
                   /\ IsPrefix(DeleteKinds, DueDeletes(n))
            /\ RollbackOver =>
                   /\ DeleteKinds = DueDeletes(n)
                   /\ (n = 4 => DeleteKinds = <<"nsg", "vnet">>)

C1_Witness ==
    /\ pc = "raised"
    /\ StepFailed(4)
    /\ Len(rollback_arg) = 3
    /\ DeleteKinds = <<"nsg", "vnet">>

\* C2: rollback is best effort: whichever delete calls fail, every committed
\* step other than the Subnet still receives its delete call, in reverse
\* commit order; a failing delete never ends the loop.
C2_BestEffortRollback ==
    /\ RollbackOver =>
           /\ \A j \in 1..Len(rollback_arg) :
                  rollback_arg[j][1] # "subnet" =>
                      \E d \in DeleteCalls \cap Returned :
                          issued[d].kind = rollback_arg[j][1]
           /\ \A d1, d2 \in DeleteCalls :
                  d1 < d2 => Pos(issued[d1].kind) > Pos(issued[d2].kind)
    /\ (RollbackInvoked /\ pc # "delete_wait") =>
           Cardinality(DeleteCalls) =
               Cardinality({j \in 1..Len(rollback_arg) :
                               /\ j > Len(rollback_arg) - (it - 1)
                               /\ rollback_arg[j][1] # "subnet"})

C2_Witness ==
    /\ pc = "raised"
    /\ StepFailed(6)
    /\ \E d \in FailedDeletes : issued[d].kind = "nic"
    /\ DeleteKinds = <<"nic", "public_ip", "nsg", "vnet">>

\* C3: when a creation step fails, the error create_vm raises is that
\* creation error, it is raised only once the rollback loop is over, and no
\* delete error takes its place, whether all, some or no deletions failed.
C3_OriginalErrorSurfaced ==
    \A j \in FailedCreates :
        /\ raised \in {NoError, results[j]}
        /\ pc = "raised" => raised = results[j]
        /\ raised # NoError =>
               /\ RollbackOver
               /\ it > Len(rollback_arg)
               /\ inflight = {}
               /\ DeleteCalls \subseteq Returned
               /\ Len(DeleteKinds) =
                      Cardinality({i \in 1..Len(rollback_arg) : rollback_arg[i][1] # "subnet"})

C3_Witness ==
    /\ pc = "raised"
    /\ StepFailed(5)
    /\ raised = Err("create", "nic")
    /\ FailedDeletes # {}
    /\ OkDeletes # {}

\* the resources the successful create calls of this transaction made
TxResources ==
    {Resource(issued[j].kind, issued[j].rg, issued[j].name.name, issued[j].parent) :
        j \in {i \in CreateCalls \cap Returned : results[i] = Ok}}

\* C4: the transaction is all or nothing: when create_vm ends in failure and
\* every delete call of the rollback succeeded, none of the resources this
\* transaction created still exists at the provider.
C4_AllOrNothing ==
    (pc = "raised" /\ RollbackOver /\ FailedDeletes = {}) =>
        TxResources \cap exists = {}

\* C5: after the first failing create call no further create call is issued;
\* the transaction goes to rollback with the committed sequence as it stood
\* at the failure.
C5_StopAtFirstFailure ==
    \A j \in Returned :
        (issued[j].op = "create" /\ results[j] # Ok) =>
            /\ \A j2 \in 1..Len(issued) : j2 > j => issued[j2].op = "delete"
            /\ pc \in {"except", "rollback", "delete_wait", "reraise", "raised"}
            /\ Len(created_resources) = Cardinality(CreateCalls \cap 1..(j - 1))
            /\ RollbackInvoked => rollback_arg = created_resources

C5_Witness ==
    /\ pc = "raised"
    /\ StepFailed(3)
    /\ CreateKinds = <<"vnet", "subnet", "nsg">>
    /\ KindsOf(rollback_arg) = <<"vnet", "subnet">>
    /\ DeleteKinds = <<"vnet">>

\* C6: create calls are issued in the order VNet, Subnet, NSG, PublicIP, NIC,
\* VM, and the create call of a step is issued only when every preceding
\* step is in the committed sequence.
C6_FixedCreateOrder ==
    /\ IsPrefix(CreateKinds, Order)
    /\ Len(CreateKinds) <= Len(created_resources) + 1
    /\ \A c \in inflight :
           IsStepCreate(c) =>
               KindsOf(created_resources) = SubSeq(Order, 1, Pos(c.kind) - 1)

C6_Witness ==
    /\ \E c \in inflight : c.op = "create" /\ c.kind = "nic"
    /\ KindsOf(created_resources) = <<"vnet", "subnet", "nsg", "public_ip">>

\* C7: created_resources is always a prefix of [vnet, subnet, nsg, public_ip,
\* nic, vm]; an entry is appended only when its create call returns
\* successfully, a failed create appends nothing, and no entry is ever
\* removed or changed.
C7_CommittedPrefix ==
    /\ [](IsPrefix(KindsOf(created_resources), Order))
    /\ [][\/ created_resources' = created_resources
          \/ /\ Len(created_resources') = Len(created_resources) + 1
             /\ SubSeq(created_resources', 1, Len(created_resources)) = created_resources
             /\ \E c \in inflight :
                    /\ IsStepCreate(c)
                    /\ created_resources'[Len(created_resources')][1] = c.kind
             /\ results' = Append(results, Ok)]_vars

C7_Witness ==
    /\ pc = "raised"
    /\ StepFailed(4)
    /\ KindsOf(created_resources) = <<"vnet", "subnet", "nsg">>
    /\ Cardinality(DeleteCalls \cap Returned) = 2

\* C8: no execution of create_vm issues a delete call for the Subnet kind,
\* also when the delete of the VNet fails.
C8_NoSubnetDelete ==
    /\ \A j \in 1..Len(issued) : IsDelete(issued[j]) => issued[j].kind # "subnet"
    /\ \A c \in inflight : IsDelete(c) => c.kind # "subnet"

C8_Witness ==
    /\ pc = "raised"
    /\ \E j \in 1..Len(rollback_arg) : rollback_arg[j][1] = "subnet"
    /\ \E d \in FailedDeletes : issued[d].kind = "vnet"

\* the resource group of the configuration, at the provider
TheGroup == Resource("resource_group", "-", cfg["rg_name"], "-")

\* C9: the resource group is not part of the rollback chain: no execution of
\* create_vm issues a delete of the resource group, whichever step fails, and
\* once ensured the group stays.
C9_ResourceGroupKept ==
    /\ \A j \in 1..Len(issued) :
           IsDelete(issued[j]) => issued[j].kind # "resource_group"
    /\ (results # <<>> /\ results[1] = Ok) => TheGroup \in exists

C9_Witness ==
    /\ pc = "raised"
    /\ Len(DeleteKinds) >= 3
    /\ OkDeletes # {}
    /\ TheGroup \in exists

\* the n-th delete call issued
NthDelete(n) ==
    CHOOSE d \in DeleteCalls : Cardinality({d2 \in DeleteCalls : d2 <= d}) = n

IsFailedLine(l) == l.line = "Failed to delete"
IsDeletingLine(l) == l.line = "Deleting"

AllCreated ==
    /\ Cardinality(CreateCalls) = Len(Order)
    /\ \A j \in CreateCalls : j \in Returned /\ results[j] = Ok

C12_MissingFieldRejected ==
    (\E f \in FieldSet : cfg[f] = Missing) =>
        /\ pc \in {"menu", "main_done", "cfg", "raised"}
        /\ issued = <<>>
        /\ inflight = {}
        /\ \A r \in exists : r.kind = "resource_group"
        /\ it = 0
        /\ rollback_ret = NotReturned
        /\ pc = "raised" => raised.op = "KeyError" /\ cfg[raised.kind] = Missing

C12_Witness ==
    /\ pc = "raised"
    /\ cfg["public_ip"] = Missing
    /\ raised = Err("KeyError", "public_ip")
    /\ issued = <<>>

\* C13: the SSH public key is obtained before the first cloud call: a failure
\* to read the key file cannot occur after a resource has been created, it
\* leaves no created resource behind and triggers no rollback deletion.
C13_KeyReadBeforeCloudCalls ==
    e = Err("open", "ssh_public_key_path") =>
        /\ issued = <<>>
        /\ created_resources = <<>>
        /\ TxResources = {}
        /\ DeleteCalls = {}

\* credential acquisition has failed: at construction, or at the ensure call
CredentialFailed ==
    \/ raised = Err("credential", "-")
    \/ results # <<>> /\ results[1] # Ok

\* C14: if credential acquisition fails, at construction or at the resource
\* group ensure call, create_vm ends before any step's create call: the
\* committed sequence is empty and no step create and no delete is issued.
C14_CredentialFailureAborts ==
    CredentialFailed =>
        /\ created_resources = <<>>
        /\ CreateCalls = {}
        /\ DeleteCalls = {}
        /\ TxResources = {}
        /\ pc \in {"except", "rollback", "reraise", "raised"}
        /\ pc = "raised" => raised \in {Err("credential", "-"),
                                          Err("create", "resource_group")}

C14_Witness ==
    /\ pc = "raised"
    /\ raised = Err("create", "resource_group")
    /\ rollback_ret = None
    /\ Len(issued) = 1

\* C15: at most one provider operation is in flight at any time: a call is
\* issued only when every earlier call has returned, creates and deletes alike.
C15_OneCallInFlight ==
    /\ Cardinality(inflight) <= 1
    /\ Len(issued) - Len(results) = Cardinality(inflight)
    /\ \A c \in inflight : c = issued[Len(issued)]
    /\ inflight # {} <=> pc \in {"rg_wait", "create_wait", "delete_wait"}

C15_Witness ==
    /\ \E c \in inflight : c.op = "delete" /\ c.kind = "nsg"
    /\ Len(results) = Len(issued) - 1
    /\ Cardinality(DeleteCalls \cap Returned) = 2

\* C16: every delete call of the rollback targets the resource group and the
\* resource name that were passed to the create call of that step; the
\* PublicIP delete is issued with the configured public IP name.
C16_DeleteTargetsCreatedName ==
    \A d \in DeleteCalls :
        /\ \E c \in CreateCalls :
               /\ c < d
               /\ issued[c].kind = issued[d].kind
               /\ issued[c].rg = issued[d].rg
               /\ issued[c].name = issued[d].name
        /\ issued[d].kind = "public_ip" => issued[d].name = Str(cfg["public_ip"])

\* C17: if every provider call returns, every run of create_vm ends, in a
\* normal return or in a raised failure; rollback runs at most once and never
\* after a fully successful run; each committed step gets at most one delete
\* attempt, at most 5 delete calls in all.
C17_TerminatesRollbackOnce ==
    /\ (pc = "cfg") ~> (pc \in {"returned", "raised"})
    /\ [](/\ Cardinality(DeleteCalls) <= Len(Deletable)
          /\ \A d1, d2 \in DeleteCalls :
                 issued[d1].kind = issued[d2].kind => d1 = d2
          /\ pc \in {"success", "returned"} =>
                 /\ it = 0
                 /\ rollback_ret = NotReturned
                 /\ DeleteCalls = {})
    /\ [][(pc' = "rollback" /\ pc \notin {"rollback", "delete_wait"}) => it = 0]_vars

C17_Witness ==
    /\ pc = "raised"
    /\ rollback_ret = None
    /\ Cardinality(DeleteCalls) = 4
    /\ Cardinality(FailedDeletes) = 4

\* C18: in interactive_creation, option 3 ("Virtual Machine creation") starts
\* create_vm and never deletes the resource group; only option 2 calls
\* delete_resource_group.
C18_OptionThreeCreatesVm ==
    \A j \in 1..Len(main_calls) :
        /\ main_calls[j].choice = "3" => main_calls[j].fn = "create_vm"
        /\ main_calls[j].fn = "delete_resource_group" => main_calls[j].choice = "2"

====
